---- MODULE Spec2Model ----
(***************************************************************************)
(* Model of the form-answer resolver of src/api/answer_generator.py and    *)
(* its HTTP adapters (src/api/page_answers.py, src/app.py).                *)
(*                                                                         *)
(* Python strings are sequences of one-character strings, so that lower(), *)
(* strip() and the `in` substring test are computed and not assumed.       *)
(* The dict `normalized`, whose iteration order matters, is a sequence of   *)
(* entries in insertion order; every other dict is a function.             *)
(***************************************************************************)
EXTENDS Integers, Sequences, FiniteSets, TLC

VARIABLES
  client,     \* TRUE iff the module global _client is an OpenAI client
  backend,    \* what the OpenAI service does when it is invoked
  questions,  \* argument of get_page_answers
  page_notes, \* argument of get_page_answers, by its kind (see sliceable)
  facts,      \* argument of get_page_answers (the override fact sheet)
  pc,         \* position of the running function
  calls,      \* number of invocations of _client.responses.create so far
  parsed,     \* local `parsed` of get_page_answers
  result,     \* value returned by get_page_answers
  raised,     \* TRUE iff an exception left the running function
  args,       \* arguments of the helper function under test
  ret,        \* return value of the helper function under test
  request,    \* HTTP request body received by the adapter
  response    \* HTTP response produced by the adapter

vars == <<client, backend, questions, page_notes, facts, pc, calls, parsed,
          result, raised, args, ret, request, response>>

\* Placeholder for a variable the running specification does not use.
Unused == "unused"

-----------------------------------------------------------------------------
(* Bounds of the model.                                                    *)

\* Longest candidate list handed to _validate_options.
MaxAnswers == 2
\* Longest option list handed to _validate_options.
MaxOptions == 2
\* Largest number of questions on a page.
MaxQuestions == 2
\* Largest number of items in a backend reply.
MaxItems == 2

-----------------------------------------------------------------------------
(* Python str built-ins used by the resolver.                              *)

UpperChars == <<"A", "B", "C", "D", "E", "F", "G", "H", "I", "J", "K", "L", "M",
                "N", "O", "P", "Q", "R", "S", "T", "U", "V", "W", "X", "Y", "Z">>
LowerChars == <<"a", "b", "c", "d", "e", "f", "g", "h", "i", "j", "k", "l", "m",
                "n", "o", "p", "q", "r", "s", "t", "u", "v", "w", "x", "y", "z">>
\* The ASCII characters str.strip() removes: space, \t, \n, \r, \f, \x0b and
\* the separators \x1c to \x1f (the last five are written as the characters
\* themselves). Strings of the model are ASCII.
Whitespace == {" ", "\t", "\n", "\r", "\f", "", "", "", "", ""}
\* The ASCII characters int() skips around a number.
IntWhitespace == {" ", "\t", "\n", "\r", "\f", ""}

\* str.lower() on one character.
lower_char(c) ==
  IF \E i \in 1..Len(UpperChars) : UpperChars[i] = c
    THEN LowerChars[CHOOSE i \in 1..Len(UpperChars) : UpperChars[i] = c]
    ELSE c

\* str.lower()
lower(s) == [i \in 1..Len(s) |-> lower_char(s[i])]

\* s without its leading and trailing characters of the set chars.
strip_chars(s, chars) ==
  LET keep == {i \in 1..Len(s) : s[i] \notin chars}
  IN IF keep = {} THEN <<>>
     ELSE LET first == CHOOSE i \in keep : \A j \in keep : i <= j
              last  == CHOOSE i \in keep : \A j \in keep : j <= i
          IN SubSeq(s, first, last)

\* str.strip(): drops leading and trailing whitespace.
strip(s) == strip_chars(s, Whitespace)

\* Python `sub in s` on strings.
contains(sub, s) ==
  \E i \in 0..(Len(s) - Len(sub)) : SubSeq(s, i + 1, i + Len(sub)) = sub

\* Least element of a non-empty set of integers.
Min(S) == CHOOSE i \in S : \A j \in S : i <= j
\* Greatest element of a non-empty set of integers.
Max(S) == CHOOSE i \in S : \A j \in S : j <= i

-----------------------------------------------------------------------------
(* String literals: the spec's examples and sample inputs.                 *)

s_farmers_fridge_opt == <<"F", "a", "r", "m", "e", "r", "'", "s", " ", "F", "r", "i", "d", "g", "e">>
s_blue_bottle == <<"B", "l", "u", "e", " ", "B", "o", "t", "t", "l", "e">>
s_farmers_fridge == <<"f", "a", "r", "m", "e", "r", "s", " ", "f", "r", "i", "d", "g", "e">>
s_fridge == <<"F", "r", "i", "d", "g", "e">>
s_farmers_fridge_sp == <<" ", " ", "F", "A", "R", "M", "E", "R", "'", "S", " ", "F", "R", "I", "D", "G", "E", " ">>
s_tea == <<"T", "e", "a">>
s_red == <<"R", "e", "d">>
s_blue == <<"B", "l", "u", "e">>
s_red_upper == <<"R", "E", "D">>
s_blu == <<"b", "l", "u">>
s_green == <<"G", "r", "e", "e", "n">>
s_mather_house == <<"M", "a", "t", "h", "e", "r", " ", "H", "o", "u", "s", "e">>
s_eliot_house == <<"E", "l", "i", "o", "t", " ", "H", "o", "u", "s", "e">>
s_winthrop_house == <<"W", "i", "n", "t", "h", "r", "o", "p", " ", "H", "o", "u", "s", "e">>
s_other_email == <<"m", "e", "@", "c", "o", "l", "l", "e", "g", "e", ".", "e", "d", "u">>
s_7_sp == <<" ", "7", "\r", "\n">>
s_1_0 == <<"1", "_", "0">>
s_red_crlf == <<"R", "e", "d", "\r", "\n">>
s_re_cap == <<"R", "e">>
s_abc == <<"a", "b", "c">>
s_empty == <<>>
s_re == <<"r", "e">>

\* All sequences over S of length at most n.
SeqsUpTo(S, n) == UNION {[1..k -> S] : k \in 0..n}

-----------------------------------------------------------------------------
(* _validate_options (answer_generator.py lines 221-245).                  *)

\* The key under which an option or a candidate is compared: x.lower().strip()
normalize(x) == strip(lower(x))

\* normalized = {opt.lower().strip(): opt for opt in options}: a dict keeps a
\* key at the place of its first insertion and the value of its last one.
normalized_dict(options) ==
  LET F[n \in 0..Len(options)] ==
        IF n = 0 THEN <<>>
        ELSE LET prev == F[n - 1]
                 k    == normalize(options[n])
                 e    == [key |-> k, original |-> options[n]]
             IN IF \E j \in 1..Len(prev) : prev[j].key = k
                  THEN [j \in 1..Len(prev) |->
                          IF prev[j].key = k THEN e ELSE prev[j]]
                  ELSE Append(prev, e)
  IN F[Len(options)]

\* select_one without the substring fallback of lines 237-240.
select_one_exact_only(ans, normalized, selected) ==
  LET key   == normalize(ans)
      exact == {j \in 1..Len(normalized) : normalized[j].key = key}
  IN IF exact # {} THEN Append(selected, normalized[Min(exact)].original)
     ELSE selected

\* One pass of the body of `for ans in answers` on a single candidate:
\* the list `selected` after the candidate has been looked up.
select_one(ans, normalized, selected) ==
  LET key   == normalize(ans)
      exact == {j \in 1..Len(normalized) : normalized[j].key = key}
      sub   == {j \in 1..Len(normalized) :
                  contains(key, normalized[j].key)
                    \/ contains(normalized[j].key, key)}
  IN IF exact # {} THEN Append(selected, normalized[Min(exact)].original)
     ELSE IF sub # {} THEN Append(selected, normalized[Min(sub)].original)
     ELSE selected

\* The loop `for ans in answers` from candidate i on, with its early break.
RECURSIVE validate_loop(_, _, _, _, _)
validate_loop(answers, i, normalized, allow_multiple, selected) ==
  IF i > Len(answers) THEN selected
  ELSE LET sel == select_one(answers[i], normalized, selected)
       IN IF ~allow_multiple /\ sel # <<>> THEN sel
          ELSE validate_loop(answers, i + 1, normalized, allow_multiple, sel)

_validate_options(answers, options, allow_multiple) ==
  IF options = <<>> THEN answers
  ELSE validate_loop(answers, 1, normalized_dict(options), allow_multiple, <<>>)

-----------------------------------------------------------------------------
(* Specification SpecValidate: _validate_options applied to bounded inputs. *)

Candidates ==
  {s_farmers_fridge, s_fridge, s_farmers_fridge_sp, s_re, s_tea, s_red_crlf}
OptionPool ==
  {s_farmers_fridge_opt, s_blue_bottle, s_re_cap, s_red, s_red_upper, s_empty}

InitValidate ==
  /\ pc = "call"
  /\ args \in [answers        : SeqsUpTo(Candidates, MaxAnswers),
               options        : SeqsUpTo(OptionPool, MaxOptions),
               allow_multiple : BOOLEAN]
  /\ ret = Unused
  /\ client = Unused /\ backend = Unused /\ questions = Unused
  /\ page_notes = Unused
  /\ facts = Unused /\ calls = 0 /\ parsed = Unused /\ result = Unused
  /\ raised = FALSE /\ request = Unused /\ response = Unused

\* The call returns.
ValidateOptions ==
  /\ pc = "call"
  /\ ret' = _validate_options(args.answers, args.options, args.allow_multiple)
  /\ pc' = "return"
  /\ UNCHANGED <<client, backend, questions, page_notes, facts, calls, parsed, result,
                 raised, args, request, response>>

SpecValidate == InitValidate /\ [][ValidateOptions]_vars

FridgeOptions == <<s_farmers_fridge_opt, s_blue_bottle>>

\* C5 as stated: against ["Farmer's Fridge", "Blue Bottle"] the candidate
\* "farmers fridge" returns ["Farmer's Fridge"] by the exact normalized match
\* and the candidate "Fridge" returns ["Farmer's Fridge"] by containment.
C5_Original ==
  (pc = "return" /\ args.options = FridgeOptions) =>
    /\ args.answers = <<s_farmers_fridge>> =>
          /\ ret = <<s_farmers_fridge_opt>>
          /\ normalize(s_farmers_fridge) = normalize(s_farmers_fridge_opt)
    /\ args.answers = <<s_fridge>> => ret = <<s_farmers_fridge_opt>>

\* C5 amended: the candidate "farmers fridge" matches nothing and returns the
\* empty list (lower-casing and trimming keep the option's apostrophe, so the
\* normalized strings are different and neither contains the other), while
\* the candidate "Fridge", which is no exact match, returns
\* ["Farmer's Fridge"] by substring containment.
C5_Amended ==
  (pc = "return" /\ args.options = FridgeOptions) =>
    /\ args.answers = <<s_farmers_fridge>> =>
          /\ ret = <<>>
          /\ normalize(s_farmers_fridge) # normalize(s_farmers_fridge_opt)
    /\ args.answers = <<s_fridge>> =>
          /\ ret = <<s_farmers_fridge_opt>>
          /\ \A j \in 1..Len(FridgeOptions) :
                normalize(FridgeOptions[j]) # normalize(s_fridge)
          /\ contains(normalize(s_fridge), normalize(s_farmers_fridge_opt))

\* The candidate "farmers fridge" has been validated against the two options
\* and nothing was selected.
C5_Witness ==
  /\ pc = "return" /\ args.options = FridgeOptions /\ ~args.allow_multiple
  /\ args.answers = <<s_farmers_fridge>> /\ ret = <<>>

\* What the claim C8 lets one candidate contribute against a non-empty
\* option list: an option with the same normalized form if there is one,
\* otherwise the first option, in list order, that contains the normalized
\* candidate or is contained in it, otherwise nothing.
C8_Contribution(ans, options) ==
  LET key   == normalize(ans)
      exact == {j \in 1..Len(options) : normalize(options[j]) = key}
      sub   == {j \in 1..Len(options) :
                  contains(key, normalize(options[j]))
                    \/ contains(normalize(options[j]), key)}
  IN IF exact # {} THEN {<<options[j]>> : j \in exact}
     ELSE IF sub # {} THEN {<<options[Min(sub)]>>}
     ELSE {<<>>}

\* Concatenation of the single-candidate results, in candidate order.
RECURSIVE C8_Concat(_, _, _)
C8_Concat(answers, options, i) ==
  IF i > Len(answers) THEN <<>>
  ELSE _validate_options(<<answers[i]>>, options, TRUE)
         \o C8_Concat(answers, options, i + 1)

\* C8 as stated: every candidate contributes as C8_Contribution says, for
\* every option list (also with options of equal normalized form or an empty
\* option); candidates are processed in order; without allow_multiple the
\* result is the match of the first candidate that matches anything; with an
\* empty option list the candidates are returned unchanged.
C8_Claim ==
  pc = "return" =>
    LET a == args.answers
        o == args.options
        matching == {i \in 1..Len(a) : _validate_options(<<a[i]>>, o, TRUE) # <<>>}
    IN IF o = <<>> THEN ret = a
       ELSE /\ \A i \in 1..Len(a) :
                 _validate_options(<<a[i]>>, o, TRUE) \in C8_Contribution(a[i], o)
            /\ args.allow_multiple => ret = C8_Concat(a, o, 1)
            /\ ~args.allow_multiple =>
                 /\ Len(ret) <= 1
                 /\ ret = IF matching = {} THEN <<>>
                          ELSE _validate_options(<<a[Min(matching)]>>, o, TRUE)

-----------------------------------------------------------------------------
(* Python values at run time: None, a str, a list of str, an int, a float   *)
(* or a bool.                                                              *)

None == [t |-> "none", v |-> <<>>]
Str(s) == [t |-> "str", v |-> s]
List(l) == [t |-> "list", v |-> l]
IntVal(n) == [t |-> "int", v |-> n]
Bool(b) == [t |-> "bool", v |-> b]
\* A finite float, counted in tenths: Float(79) is 7.9.
Float(tenths) == [t |-> "float", v |-> [finite |-> TRUE, tenths |-> tenths]]
\* float("inf"), which json.loads returns for Infinity and 1e400.
Infinity == [t |-> "float", v |-> [finite |-> FALSE, tenths |-> 0]]

\* Python truthiness of such a value.
truthy(x) ==
  IF x.t = "none" THEN FALSE
  ELSE IF x.t = "int" THEN x.v # 0
  ELSE IF x.t = "bool" THEN x.v
  ELSE IF x.t = "float" THEN ~x.v.finite \/ x.v.tenths # 0
  ELSE x.v # <<>>

\* dict.get(key) with the default None.
dict_get(d, key) == IF key \in DOMAIN d THEN d[key] ELSE None

\* options[0] if options else None
opts_first(q) == IF q.options # <<>> THEN Str(q.options[1]) ELSE None

\* The empty dict {} and the empty answer mapping.
EmptyDict == <<>>

-----------------------------------------------------------------------------
(* DEFAULT_FACTS and _merge_facts (answer_generator.py lines 22-38, 86-90). *)

s_cosine_cake == <<"C", "o", "s", "i", "n", "e", " ", "C", "a", "k", "e">>
s_cosine == <<"C", "o", "s", "i", "n", "e">>
s_student_email == <<"s", "t", "u", "d", "e", "n", "t", "@", "e", "x", "a", "m", "p", "l", "e", ".", "c", "o", "m">>
s_2028 == <<"2", "0", "2", "8">>
s_computer_science == <<"C", "o", "m", "p", "u", "t", "e", "r", " ", "S", "c", "i", "e", "n", "c", "e">>
s_mather_lowrise == <<"M", "a", "t", "h", "e", "r", " ", "L", "o", "w", "r", "i", "s", "e", " ", "2", "1", "4">>
s_phone == <<"+", "1", " ", "(", "6", "1", "7", ")", " ", "5", "5", "5", "-", "0", "1", "3", "4">>
s_hometown == <<"C", "a", "m", "b", "r", "i", "d", "g", "e", ",", " ", "M", "A">>
s_entrepreneurship == <<"e", "n", "t", "r", "e", "p", "r", "e", "n", "e", "u", "r", "s", "h", "i", "p">>
s_product_design == <<"p", "r", "o", "d", "u", "c", "t", " ", "d", "e", "s", "i", "g", "n">>
s_student_leadership == <<"s", "t", "u", "d", "e", "n", "t", " ", "l", "e", "a", "d", "e", "r", "s", "h", "i", "p">>

DEFAULT_FACTS ==
  [full_name        |-> Str(s_cosine_cake),
   preferred_name   |-> Str(s_cosine),
   email            |-> Str(s_student_email),
   class_year       |-> Str(s_2028),
   concentration    |-> Str(s_computer_science),
   house            |-> Str(s_mather_house),
   residence_number |-> Str(s_mather_lowrise),
   phone            |-> Str(s_phone),
   hometown         |-> Str(s_hometown),
   default_club     |-> Str(s_farmers_fridge_opt),
   interests        |-> List(<<s_entrepreneurship, s_product_design,
                               s_student_leadership>>)]

\* merged = {**DEFAULT_FACTS}; merged.update(incoming): incoming wins.
_merge_facts(incoming) == incoming @@ DEFAULT_FACTS

-----------------------------------------------------------------------------
(* Heuristic fallback (answer_generator.py lines 253-298).                 *)
(* A question descriptor is a record                                       *)
(*   [has_index, index, qtext, type, options]                              *)
(* where has_index = FALSE stands for a descriptor without an "index" key. *)

kw_email == <<"e", "m", "a", "i", "l">>
kw_name == <<"n", "a", "m", "e">>
kw_class_year == <<"c", "l", "a", "s", "s", " ", "y", "e", "a", "r">>
kw_team == <<"t", "e", "a", "m">>
kw_house == <<"h", "o", "u", "s", "e">>
kw_hall == <<"h", "a", "l", "l">>
kw_residence == <<"r", "e", "s", "i", "d", "e", "n", "c", "e">>
s_sentence_head == <<"I", " ", "a", "p", "p", "r", "e", "c", "i", "a", "t", "e", " ", "t", "h", "e", " ", "o", "p", "p", "o", "r", "t", "u", "n", "i", "t", "y", " ", "t", "o", " ", "s", "h", "a", "r", "e", " ", "m", "o", "r", "e", " ", "a", "b", "o", "u", "t", " ">>
s_sentence_tail == <<".">>

\* q.get("index", default)
index_or(q, default) == IF q.has_index THEN q.index ELSE default

\* _fallback_answer with the "house"/"hall" test moved ahead of the "team"
\* test (lines 282-285 swapped).
_fallback_answer_house_first(question, merged) ==
  LET qtext   == lower(question.qtext)
      qtype   == question.type
      options == question.options
  IN IF contains(kw_email, qtext) THEN dict_get(merged, "email")
     ELSE IF contains(kw_name, qtext) THEN dict_get(merged, "full_name")
     ELSE IF contains(kw_class_year, qtext) THEN dict_get(merged, "class_year")
     ELSE IF contains(kw_house, qtext) \/ contains(kw_hall, qtext)
       THEN dict_get(merged, "house")
     ELSE IF contains(kw_team, qtext)
       THEN IF truthy(dict_get(merged, "default_club"))
              THEN dict_get(merged, "default_club")
              ELSE IF options # <<>> THEN Str(options[1]) ELSE None
     ELSE IF contains(kw_residence, qtext)
       THEN dict_get(merged, "residence_number")
     ELSE IF qtype = "checkbox"
       THEN IF options # <<>> THEN List(SubSeq(options, 1, 1)) ELSE None
     ELSE IF qtype \in {"radio", "dropdown", "scale"}
       THEN IF options # <<>> THEN Str(options[1]) ELSE None
     ELSE IF qtype = "text"
       THEN Str(s_sentence_head \o lower(question.qtext) \o s_sentence_tail)
     ELSE None

_fallback_answer(question, merged) ==
  LET qtext   == lower(question.qtext)
      qtype   == question.type
      options == question.options
  IN IF contains(kw_email, qtext) THEN dict_get(merged, "email")
     ELSE IF contains(kw_name, qtext) THEN dict_get(merged, "full_name")
     ELSE IF contains(kw_class_year, qtext) THEN dict_get(merged, "class_year")
     ELSE IF contains(kw_team, qtext)
       THEN IF truthy(dict_get(merged, "default_club"))
              THEN dict_get(merged, "default_club")
              ELSE IF options # <<>> THEN Str(options[1]) ELSE None
     ELSE IF contains(kw_house, qtext) \/ contains(kw_hall, qtext)
       THEN dict_get(merged, "house")
     ELSE IF contains(kw_residence, qtext)
       THEN dict_get(merged, "residence_number")
     ELSE IF qtype = "checkbox"
       THEN IF options # <<>> THEN List(SubSeq(options, 1, 1)) ELSE None
     ELSE IF qtype \in {"radio", "dropdown", "scale"}
       THEN IF options # <<>> THEN Str(options[1]) ELSE None
     ELSE IF qtype = "text"
       THEN Str(s_sentence_head \o lower(question.qtext) \o s_sentence_tail)
     ELSE None

\* The loop of _fallback_page_answers from question i on.
RECURSIVE fallback_loop(_, _, _, _)
fallback_loop(qs, merged, i, mapping) ==
  IF i > Len(qs) THEN mapping
  ELSE LET idx == index_or(qs[i], -1)
           ans == _fallback_answer(qs[i], merged)
       IN IF idx < 0 \/ ans = None
            THEN fallback_loop(qs, merged, i + 1, mapping)
            ELSE fallback_loop(qs, merged, i + 1, (idx :> ans) @@ mapping)

_fallback_page_answers(qs, merged) == fallback_loop(qs, merged, 1, EmptyDict)

-----------------------------------------------------------------------------
(* Specification SpecFallback: _fallback_page_answers applied to pages of  *)
(* at most MaxQuestions questions under a merged fact sheet.               *)

t_harvard_email == <<"W", "h", "a", "t", " ", "i", "s", " ", "y", "o", "u", "r", " ", "H", "a", "r", "v", "a", "r", "d", " ", "e", "m", "a", "i", "l", "?">>
t_pick_house == <<"P", "i", "c", "k", " ", "a", " ", "h", "o", "u", "s", "e">>
t_favorite_color == <<"F", "a", "v", "o", "r", "i", "t", "e", " ", "c", "o", "l", "o", "r">>
t_team_house == <<"T", "e", "a", "m", " ", "H", "O", "U", "S", "E">>
t_full_name == <<"F", "u", "l", "l", " ", "N", "a", "m", "e">>
t_class_year == <<"C", "l", "a", "s", "s", " ", "y", "e", "a", "r">>
t_email_name == <<"E", "m", "a", "i", "l", " ", "o", "r", " ", "n", "a", "m", "e">>
t_dining_hall == <<"D", "i", "n", "i", "n", "g", " ", "H", "a", "l", "l">>
t_residence == <<"R", "e", "s", "i", "d", "e", "n", "c", "e">>
t_team == <<"T", "e", "a", "m">>
t_snacks == <<"S", "n", "a", "c", "k", "s">>
t_anything == <<"A", "n", "y", "t", "h", "i", "n", "g", " ", "e", "l", "s", "e">>

Q(i, text, type, options) ==
  [has_index |-> TRUE, index |-> i, qtext |-> text, type |-> type,
   options |-> options]

HouseOptions == <<s_mather_house, s_eliot_house>>
ColorOptions == <<s_red, s_blue>>

\* Keyword questions (with options that do not hold the fact) and questions
\* without a keyword, of every type, with and without options.
FallbackQuestions ==
  { Q(3, t_harvard_email, "text", <<>>),
    Q(5, t_pick_house, "radio", HouseOptions),
    Q(7, t_favorite_color, "dropdown", ColorOptions),
    Q(1, t_team_house, "radio", ColorOptions),
    Q(2, t_team, "checkbox", <<>>),
    Q(4, t_full_name, "text", <<>>),
    Q(6, t_class_year, "scale", ColorOptions),
    Q(8, t_email_name, "text", <<>>),
    Q(9, t_dining_hall, "dropdown", ColorOptions),
    Q(10, t_residence, "text", <<>>),
    Q(11, t_favorite_color, "checkbox", ColorOptions),
    Q(12, t_favorite_color, "radio", ColorOptions),
    Q(13, t_favorite_color, "scale", ColorOptions),
    Q(14, t_favorite_color, "text", ColorOptions),
    Q(15, t_favorite_color, "unknown", ColorOptions),
    Q(16, t_favorite_color, "checkbox", <<>>),
    Q(17, t_favorite_color, "radio", <<>>) }

\* Fact overrides of a request: none, an emptied club, another house and email.
FactOverrides ==
  { EmptyDict,
    [default_club |-> Str(s_empty)],
    [house |-> Str(s_eliot_house), email |-> Str(s_other_email)] }

\* Pages: lists of at most n questions of pool P with pairwise distinct members.
Pages(P, n) ==
  {p \in SeqsUpTo(P, n) : \A i, j \in 1..Len(p) : i # j => p[i] # p[j]}

InitFallback ==
  /\ pc = "call"
  /\ args \in [questions : Pages(FallbackQuestions, MaxQuestions),
               facts     : FactOverrides]
  /\ ret = Unused
  /\ client = Unused /\ backend = Unused /\ questions = Unused
  /\ page_notes = Unused
  /\ facts = Unused /\ calls = 0 /\ parsed = Unused /\ result = Unused
  /\ raised = FALSE /\ request = Unused /\ response = Unused

\* The call returns.
FallbackPageAnswers ==
  /\ pc = "call"
  /\ ret' = _fallback_page_answers(args.questions, _merge_facts(args.facts))
  /\ pc' = "return"
  /\ UNCHANGED <<client, backend, questions, page_notes, facts, calls, parsed, result,
                 raised, args, request, response>>

SpecFallback == InitFallback /\ [][FallbackPageAnswers]_vars

\* The priority chain of C9: keyword sets in the order of the claim, each with
\* the fact it answers with.
C9_Chain ==
  << [kws |-> {kw_email},          fact |-> "email"],
     [kws |-> {kw_name},           fact |-> "full_name"],
     [kws |-> {kw_class_year},     fact |-> "class_year"],
     [kws |-> {kw_team},           fact |-> "default_club"],
     [kws |-> {kw_house, kw_hall}, fact |-> "house"],
     [kws |-> {kw_residence},      fact |-> "residence_number"] >>

\* The answer C9 gives one question, decided from that question alone.
C9_Expected(q, merged) ==
  LET hits == {n \in 1..Len(C9_Chain) :
                 \E kw \in C9_Chain[n].kws : contains(kw, lower(q.qtext))}
      first == opts_first(q)
  IN IF hits # {}
       THEN LET f == merged[C9_Chain[Min(hits)].fact]
            IN IF C9_Chain[Min(hits)].fact = "default_club" /\ ~truthy(f)
                 THEN first ELSE f
     ELSE IF q.type = "checkbox"
       THEN IF first = None THEN None ELSE List(<<first.v>>)
     ELSE IF q.type \in {"radio", "dropdown", "scale"} THEN first
     ELSE IF q.type = "text"
       THEN Str(s_sentence_head \o lower(q.qtext) \o s_sentence_tail)
     ELSE None

\* C9: every question of the page is answered by the priority chain on its
\* own lower-cased text (first keyword in the claim's order wins) and, when no
\* keyword matches, by its type; a question the chain omits has no key; and
\* with default facts "Pick a house" (index 5) yields {5: "Mather House"} and
\* "Favorite color" (index 7, dropdown) yields {7: "Red"}.
C9_FallbackChain ==
  pc = "return" =>
    LET merged == _merge_facts(args.facts)
        qs == args.questions
    IN /\ DOMAIN ret = {qs[i].index : i \in {j \in 1..Len(qs) :
                                        C9_Expected(qs[j], merged) # None}}
       /\ \A i \in 1..Len(qs) :
            C9_Expected(qs[i], merged) # None =>
              ret[qs[i].index] = C9_Expected(qs[i], merged)
       /\ (args.facts = EmptyDict
             /\ qs = <<Q(5, t_pick_house, "radio", HouseOptions)>>)
            => ret = (5 :> Str(s_mather_house))
       /\ (args.facts = EmptyDict
             /\ qs = <<Q(7, t_favorite_color, "dropdown", ColorOptions)>>)
            => ret = (7 :> Str(s_red))

\* A page whose first question holds both "team" and "house" has been
\* answered next to a question without a keyword.
C9_Witness ==
  /\ pc = "return"
  /\ args.facts = EmptyDict
  /\ args.questions = <<Q(1, t_team_house, "radio", ColorOptions),
                        Q(7, t_favorite_color, "dropdown", ColorOptions)>>
  /\ ret = (1 :> Str(s_farmers_fridge_opt)) @@ (7 :> Str(s_red))

-----------------------------------------------------------------------------
(* The text of a backend reply and json.loads.                             *)
(* A reply is a sequence of tokens [k, item]:                              *)
(*   "prose"     text without braces that is no JSON                       *)
(*   "ws"        whitespace that JSON allows between its tokens (spaces,   *)
(*               tabs, newlines, carriage returns)                         *)
(*   "{", "}", "[", "]"                                                    *)
(*   "answers:"  the member name "answers" and its colon                   *)
(*   "num"       a JSON number                                             *)
(*   "body"      the members index, answer and answers of one item object, *)
(*               carried in field item; their strings hold no braces       *)
(* A comma is implied between two adjacent values (a value ends with a     *)
(* number, "}" or "]" and starts with a number, "{" or "["). An object of  *)
(* a reply is {}, { body } or { answers: value }.                          *)

\* The members of an item of the reply: each of index, answer and answers is
\* None (the member is absent) or a value of the reply.
Item(index, answer, answers) ==
  [is_object |-> TRUE, index |-> index, answer |-> answer, answers |-> answers]
\* An item that is no object (a number, a string, a list): item.get raises
\* AttributeError.
ScalarItem ==
  [is_object |-> FALSE, index |-> None, answer |-> None, answers |-> None]

Tok(k) == [k |-> k, item |-> ScalarItem]
Body(item) == [k |-> "body", item |-> item]

\* The text of one item of the "answers" list.
item_text(item) ==
  IF item.is_object THEN <<Tok("{"), Body(item), Tok("}")>> ELSE <<Tok("num")>>

RECURSIVE items_text(_)
items_text(items) ==
  IF items = <<>> THEN <<>> ELSE item_text(Head(items)) \o items_text(Tail(items))

\* The text {"answers": [ ... ]} of a reply that follows the schema.
reply_text(items) ==
  <<Tok("{"), Tok("answers:"), Tok("[")>> \o items_text(items)
    \o <<Tok("]"), Tok("}")>>

\* The same text with whitespace after every token, as a pretty-printing
\* backend writes it.
RECURSIVE pretty(_)
pretty(text) ==
  IF text = <<>> THEN <<>>
  ELSE <<Head(text), Tok("ws")>> \o pretty(Tail(text))

\* str.strip() on a reply.
strip_text(text) ==
  LET keep == {i \in 1..Len(text) : text[i].k # "ws"}
  IN IF keep = {} THEN <<>> ELSE SubSeq(text, Min(keep), Max(keep))

\* The values json.loads builds: a number, an array of values (elems), or an
\* object, whose members are "none" ({}), "body" (those of field item) or
\* "answers" (the one member "answers", its value in elems).
json_num ==
  [kind |-> "num", members |-> "none", elems |-> <<>>, item |-> ScalarItem]
json_array(elems) ==
  [kind |-> "array", members |-> "none", elems |-> elems, item |-> ScalarItem]
json_object(members, elems, item) ==
  [kind |-> "object", members |-> members, elems |-> elems, item |-> item]
\* JSONDecodeError
JsonError ==
  [kind |-> "error", members |-> "none", elems |-> <<>>, item |-> ScalarItem]

\* No value starts at the position.
NoValue == [ok |-> FALSE, next |-> 0, val |-> JsonError]
NoElems == [ok |-> FALSE, next |-> 0, elems |-> <<>>]

\* The JSON value that starts at token i of a text without whitespace, and
\* the position after it; json_elems reads the values of an array up to and
\* including its "]".
RECURSIVE json_value(_, _), json_elems(_, _)
json_value(text, i) ==
  LET k(j) == IF j <= Len(text) THEN text[j].k ELSE "end"
  IN IF k(i) = "num"
       THEN [ok |-> TRUE, next |-> i + 1, val |-> json_num]
     ELSE IF k(i) = "["
       THEN LET r == json_elems(text, i + 1)
            IN IF r.ok
                 THEN [ok |-> TRUE, next |-> r.next, val |-> json_array(r.elems)]
                 ELSE NoValue
     ELSE IF k(i) = "{" /\ k(i + 1) = "}"
       THEN [ok |-> TRUE, next |-> i + 2,
             val |-> json_object("none", <<>>, ScalarItem)]
     ELSE IF k(i) = "{" /\ k(i + 1) = "body" /\ k(i + 2) = "}"
       THEN [ok |-> TRUE, next |-> i + 3,
             val |-> json_object("body", <<>>, text[i + 1].item)]
     ELSE IF k(i) = "{" /\ k(i + 1) = "answers:"
       THEN LET r == json_value(text, i + 2)
            IN IF r.ok /\ k(r.next) = "}"
                 THEN [ok |-> TRUE, next |-> r.next + 1,
                       val |-> json_object("answers", <<r.val>>, ScalarItem)]
                 ELSE NoValue
     ELSE NoValue

json_elems(text, i) ==
  IF i > Len(text) THEN NoElems
  ELSE IF text[i].k = "]" THEN [ok |-> TRUE, next |-> i + 1, elems |-> <<>>]
  ELSE LET v == json_value(text, i)
       IN IF ~v.ok THEN NoElems
          ELSE LET rest == json_elems(text, v.next)
               IN IF rest.ok
                    THEN [ok |-> TRUE, next |-> rest.next,
                          elems |-> <<v.val>> \o rest.elems]
                    ELSE NoElems

not_ws(tok) == tok.k # "ws"

\* json.loads: whitespace between the tokens is skipped, and the text must
\* be one value.
json_loads(text) ==
  LET t == SelectSeq(text, not_ws)
      r == json_value(t, 1)
  IN IF r.ok /\ r.next = Len(t) + 1 THEN r.val ELSE JsonError

\* A value of the "answers" list as the loop of line 181 sees it. An object
\* without the member index is dropped at line 185 whatever else it holds.
as_item(val) ==
  IF val.kind # "object" THEN ScalarItem
  ELSE IF val.members = "body" THEN val.item
  ELSE Item(None, None, None)

\* The number of members of an object.
member_count(obj) ==
  IF obj.members = "none" THEN 0
  ELSE IF obj.members = "answers" THEN 1
  ELSE Cardinality({m \in {"index", "answer", "answers"} : obj.item[m].t # "none"})

\* payload.get("answers", []) of an object, as the values `for item in`
\* visits: the elements of a list, the characters of a string, the keys of an
\* object (strings); iterable = FALSE for a number, which raises TypeError;
\* is_list = TRUE when the member is there and is a list.
answers_of(payload) ==
  LET scalars(n) == [i \in 1..n |-> ScalarItem]
      iter(is_list, items) ==
        [iterable |-> TRUE, is_list |-> is_list, items |-> items]
      NotIterable == [iterable |-> FALSE, is_list |-> FALSE, items |-> <<>>]
  IN IF payload.members = "none" THEN iter(FALSE, <<>>)
     ELSE IF payload.members = "answers"
       THEN LET v == payload.elems[1]
            IN IF v.kind = "array"
                 THEN iter(TRUE, [i \in 1..Len(v.elems) |-> as_item(v.elems[i])])
               ELSE IF v.kind = "object" THEN iter(FALSE, scalars(member_count(v)))
               ELSE NotIterable
     ELSE LET a == payload.item.answers
          IN IF a.t = "none" THEN iter(FALSE, <<>>)
             ELSE IF a.t = "list" THEN iter(TRUE, scalars(Len(a.v)))
             ELSE IF a.t = "str" THEN iter(FALSE, scalars(Len(a.v)))
             ELSE NotIterable

-----------------------------------------------------------------------------
(* int() and _parse_page_response (answer_generator.py lines 160-218).     *)

Digits == <<"0", "1", "2", "3", "4", "5", "6", "7", "8", "9">>
is_digit(c) == \E d \in 1..Len(Digits) : Digits[d] = c
digit_value(c) == (CHOOSE d \in 1..Len(Digits) : Digits[d] = c) - 1

\* The number written by a sequence of digits.
RECURSIVE digits_value(_)
digits_value(ds) ==
  IF ds = <<>> THEN 0
  ELSE digits_value(SubSeq(ds, 1, Len(ds) - 1)) * 10 + digit_value(ds[Len(ds)])

\* Digits, with single underscores between two of them.
is_int_literal(ds) ==
  /\ ds # <<>>
  /\ \A i \in 1..Len(ds) :
       \/ is_digit(ds[i])
       \/ /\ ds[i] = "_" /\ 1 < i /\ i < Len(ds)
          /\ is_digit(ds[i - 1]) /\ is_digit(ds[i + 1])

\* int(x): ok = FALSE stands for TypeError, ValueError or OverflowError.
\* A bool is 0 or 1, a finite float is truncated towards zero, a string is
\* an optionally signed literal with whitespace around it.
py_int(x) ==
  IF x.t = "int" THEN [ok |-> TRUE, v |-> x.v]
  ELSE IF x.t = "bool" THEN [ok |-> TRUE, v |-> IF x.v THEN 1 ELSE 0]
  ELSE IF x.t = "float"
    THEN IF ~x.v.finite THEN [ok |-> FALSE, v |-> 0]
         ELSE [ok |-> TRUE,
               v  |-> IF x.v.tenths >= 0 THEN x.v.tenths \div 10
                      ELSE 0 - ((0 - x.v.tenths) \div 10)]
  ELSE IF x.t = "str"
    THEN LET body   == strip_chars(x.v, IntWhitespace)
             signed == body # <<>> /\ body[1] \in {"-", "+"}
             ds     == IF signed THEN Tail(body) ELSE body
             value  == digits_value(SelectSeq(ds, is_digit))
         IN IF is_int_literal(ds)
              THEN [ok |-> TRUE,
                    v  |-> IF signed /\ body[1] = "-" THEN 0 - value ELSE value]
              ELSE [ok |-> FALSE, v |-> 0]
  ELSE [ok |-> FALSE, v |-> 0]

\* cleaned = raw.strip(), cut from the first "{" to the last "}" when the
\* text holds both.
extract_json(raw) ==
  LET cleaned == strip_text(raw)
      opens   == {i \in 1..Len(cleaned) : cleaned[i].k = "{"}
      closes  == {i \in 1..Len(cleaned) : cleaned[i].k = "}"}
  IN IF opens # {} /\ closes # {}
       THEN SubSeq(cleaned, Min(opens), Max(closes))
       ELSE cleaned

\* The key of question number i (from 1) in q_by_index: its index, or its
\* 0-based list position when it has none.
q_key(qs, i) == index_or(qs[i], i - 1)

\* q_by_index.get(idx): the last question entered under idx, if any.
q_by_index_has(qs, idx) == \E i \in 1..Len(qs) : q_key(qs, i) = idx
q_by_index_get(qs, idx) ==
  qs[Max({i \in 1..Len(qs) : q_key(qs, i) = idx})]

\* [str(a).strip() for a in raw_answers if str(a).strip()]
RECURSIVE strip_nonempty(_)
strip_nonempty(l) ==
  IF l = <<>> THEN <<>>
  ELSE IF strip(Head(l)) = <<>> THEN strip_nonempty(Tail(l))
  ELSE <<strip(Head(l))>> \o strip_nonempty(Tail(l))

\* The body of `for item in payload.get("answers", [])` for one item: the
\* mapping `answers` after the item.
parse_item(item, qs, answers) ==
  LET coerced == py_int(item.index)
      idx     == coerced.v
  IN IF ~item.is_object \/ ~coerced.ok THEN answers
     ELSE IF ~q_by_index_has(qs, idx) THEN answers
     ELSE
       LET qmeta   == q_by_index_get(qs, idx)
           options == qmeta.options
       IN IF qmeta.type = "checkbox"
            THEN LET raw0 == IF truthy(item.answers) THEN item.answers
                             ELSE item.answer
                     raw_answers == IF raw0.t = "str" THEN List(<<raw0.v>>)
                                    ELSE raw0
                 IN IF raw_answers.t = "list"
                      THEN LET validated ==
                                 _validate_options(strip_nonempty(raw_answers.v),
                                                   options, TRUE)
                           IN IF validated # <<>>
                                THEN (idx :> List(validated)) @@ answers
                                ELSE answers
                      ELSE answers
          ELSE
            LET ans0 == item.answer
                ans1 == IF ans0.t = "list" /\ ans0.v # <<>>
                          THEN Str(ans0.v[1]) ELSE ans0
            IN IF ans1.t # "str" THEN answers
               ELSE LET ans == strip(ans1.v)
                    IN IF ans = <<>> THEN answers
                       ELSE IF options # <<>>
                         THEN LET validated ==
                                    _validate_options(<<ans>>, options, FALSE)
                              IN IF validated # <<>>
                                   THEN (idx :> Str(validated[1])) @@ answers
                                   ELSE answers
                       ELSE (idx :> Str(ans)) @@ answers

\* parse_loop that leaves the loop at the first item it drops (`break` in
\* place of `continue` at lines 185, 188, 202 and 210).
RECURSIVE parse_loop_break(_, _, _, _)
parse_loop_break(items, qs, i, answers) ==
  IF i > Len(items) THEN answers
  ELSE IF parse_item(items[i], qs, answers) = answers THEN answers
  ELSE parse_loop_break(items, qs, i + 1, parse_item(items[i], qs, answers))

\* The loop over the items from item i on.
RECURSIVE parse_loop(_, _, _, _)
parse_loop(items, qs, i, answers) ==
  IF i > Len(items) THEN answers
  ELSE parse_loop(items, qs, i + 1, parse_item(items[i], qs, answers))

\* Returns [exc, answers]: exc = TRUE when an exception leaves the function
\* (payload.get on a value that is no object, iteration over an "answers"
\* member that cannot be iterated).
_parse_page_response(raw, qs, merged) ==
  LET payload == json_loads(extract_json(raw))
  IN IF payload.kind = "error" THEN [exc |-> FALSE, answers |-> EmptyDict]
     ELSE IF payload.kind # "object" THEN [exc |-> TRUE, answers |-> EmptyDict]
     ELSE IF ~answers_of(payload).iterable
       THEN [exc |-> TRUE, answers |-> EmptyDict]
     ELSE [exc |-> FALSE,
           answers |-> parse_loop(answers_of(payload).items, qs, 1, EmptyDict)]

-----------------------------------------------------------------------------
(* Specification SpecParse: _parse_page_response applied to replies with   *)
(* at most MaxItems items, bare or wrapped in prose, and to malformed text. *)

NoIndexQ(text, type, options) ==
  [has_index |-> FALSE, index |-> 0, qtext |-> text, type |-> type,
   options |-> options]

ParsePages ==
  { <<Q(7, t_favorite_color, "dropdown", ColorOptions),
      Q(1, t_snacks, "checkbox", FridgeOptions),
      Q(3, t_harvard_email, "text", <<>>)>>,
    <<Q(7, t_favorite_color, "text", <<>>),
      Q(1, t_snacks, "checkbox", <<>>)>> }

\* Items a backend may return: well-formed ones (the index an int, a float,
\* a bool or a string that int() accepts) and every kind of offending one
\* (not an object, index that int() rejects, index of no question, empty
\* answer, answer of the wrong type, answer that is no option).
ItemPool ==
  { Item(IntVal(7), Str(s_red_crlf), None),
    Item(Str(s_7_sp), Str(s_blu), None),
    Item(Float(79), Str(s_red), None),
    Item(Bool(TRUE), None, List(<<s_blue_bottle, s_fridge>>)),
    Item(IntVal(3), List(<<s_other_email>>), None),
    ScalarItem,
    Item(Str(s_abc), Str(s_red), None),
    Item(Infinity, Str(s_red), None),
    Item(None, Str(s_red), None),
    Item(Str(s_1_0), Str(s_red), None),
    Item(IntVal(7), Str(<<" ", "\f">>), None),
    Item(IntVal(7), IntVal(5), None),
    Item(IntVal(7), Str(s_green), None),
    Item(IntVal(1), Str(s_tea), List(<<>>)) }

\* The reply as sent: bare, pretty-printed with whitespace around it, or
\* wrapped in prose.
Wrappings(text) ==
  { text,
    <<Tok("ws")>> \o pretty(text),
    <<Tok("prose")>> \o text \o <<Tok("prose"), Tok("ws")>> }

\* Replies that hold no JSON object with a list of answers.
MalformedReplies ==
  { <<>>,
    <<Tok("prose")>>,
    <<Tok("num")>>,
    <<Tok("["), Tok("num"), Tok("]")>>,
    <<Tok("["), Tok("{"), Body(Item(IntVal(7), Str(s_red), None)), Tok("}"),
      Tok("]")>>,
    <<Tok("{"), Tok("ws"), Tok("}")>>,
    <<Tok("{"), Tok("answers:"), Tok("num"), Tok("}")>>,
    <<Tok("{"), Tok("answers:"), Tok("{"),
      Body(Item(IntVal(7), Str(s_red), None)), Tok("}"), Tok("}")>>,
    <<Tok("{"), Body(Item(IntVal(7), None, IntVal(5))), Tok("}")>>,
    <<Tok("{"), Body(Item(IntVal(7), None, List(<<s_red>>))), Tok("}")>>,
    <<Tok("{"), Tok("answers:"), Tok("["), Tok("{"),
      Body(Item(IntVal(7), Str(s_red), None))>>,
    <<Tok("}"), Tok("prose"), Tok("{")>>,
    reply_text(<<Item(IntVal(7), Str(s_red), None)>>)
      \o <<Tok("prose")>> \o reply_text(<<>>) }

Replies(n) ==
  UNION {Wrappings(reply_text(items)) : items \in SeqsUpTo(ItemPool, n)}
    \cup MalformedReplies

InitParse ==
  /\ pc = "call"
  /\ args \in [raw : Replies(MaxItems), questions : ParsePages]
  /\ ret = Unused
  /\ client = Unused /\ backend = Unused /\ questions = Unused
  /\ page_notes = Unused
  /\ facts = Unused /\ calls = 0 /\ parsed = Unused /\ result = Unused
  /\ raised = FALSE /\ request = Unused /\ response = Unused

\* The call returns or raises.
ParsePageResponse ==
  /\ pc = "call"
  /\ ret' = _parse_page_response(args.raw, args.questions, DEFAULT_FACTS)
  /\ pc' = "return"
  /\ UNCHANGED <<client, backend, questions, page_notes, facts, calls, parsed, result,
                 raised, args, request, response>>

SpecParse == InitParse /\ [][ParsePageResponse]_vars

\* The mapping recorded for item i of a reply when it is sent alone.
C10_Alone(items, i, qs) ==
  _parse_page_response(reply_text(<<items[i]>>), qs, DEFAULT_FACTS).answers

\* C10: when the reply parses as an object with a list of answers, nothing is
\* raised, an item that is no object, whose index is no integer or matches no
\* question records nothing, and the mapping holds exactly what the items
\* that are recorded when sent alone record (the last such item of an index
\* giving its value), wherever the dropped items stand in the list.
C10_PerItemRecovery ==
  (/\ pc = "return"
   /\ json_loads(extract_json(args.raw)).kind = "object"
   /\ answers_of(json_loads(extract_json(args.raw))).is_list) =>
    LET items == answers_of(json_loads(extract_json(args.raw))).items
        qs    == args.questions
        valid == {i \in 1..Len(items) : C10_Alone(items, i, qs) # EmptyDict}
    IN /\ ~ret.exc
       /\ \A i \in 1..Len(items) :
            (\/ ~items[i].is_object
             \/ ~py_int(items[i].index).ok
             \/ ~q_by_index_has(qs, py_int(items[i].index).v)) => i \notin valid
       /\ DOMAIN ret.answers =
            UNION {DOMAIN C10_Alone(items, i, qs) : i \in valid}
       /\ \A i \in valid : \A key \in DOMAIN C10_Alone(items, i, qs) :
            (\A j \in valid : j > i => key \notin DOMAIN C10_Alone(items, j, qs))
              => ret.answers[key] = C10_Alone(items, i, qs)[key]

\* A reply wrapped in prose whose first item has an index that is no integer
\* and whose second item is well-formed has been parsed: the second item is
\* recorded.
C10_Witness ==
  /\ pc = "return"
  /\ args.raw = <<Tok("prose")>>
                  \o reply_text(<<Item(Str(s_abc), Str(s_red), None),
                                  Item(IntVal(7), Str(s_red_crlf), None)>>)
                  \o <<Tok("prose"), Tok("ws")>>
  /\ ret = [exc |-> FALSE, answers |-> (7 :> Str(s_red))]

-----------------------------------------------------------------------------
(* get_page_answers (answer_generator.py lines 48-78).                     *)
(* The state of the backend is [mode, raw]: with mode "raises" the call    *)
(* _client.responses.create raises, with mode "returns" its output_text is *)
(* raw. The prompt built by _call_openai_for_page is not modelled: it      *)
(* reaches nothing but the backend, whose reply is arbitrary.              *)

Raises == [mode |-> "raises", raw |-> <<>>]
Returns(raw) == [mode |-> "returns", raw |-> raw]

\* The kinds of the argument page_notes: "list" (None or another falsy
\* value, which `or []` replaces at line 71, or a list), "str" (a non-empty
\* string), "num" (a number other than 0), "true" (True) and "obj" (a
\* non-empty dict).
PageNotesKinds == {"list", "str", "num", "true", "obj"}

\* `page_notes[:12]` (lines 122-123) yields a value: a list and a string can
\* be sliced; a number, True and a dict raise.
sliceable(notes) == notes \in {"list", "str"}

\* The value get_page_answers returns for the current client and backend.
\* When `page_notes[:12]` cannot be evaluated, the exception is raised inside
\* the try block before the backend is invoked.
get_page_answers(qs, notes, incoming) ==
  LET merged   == _merge_facts(incoming)
      fallback == _fallback_page_answers(qs, merged)
  IN IF qs = <<>> THEN EmptyDict
     ELSE IF ~client THEN fallback
     ELSE IF ~sliceable(notes) \/ backend.mode = "raises" THEN fallback
     ELSE LET p == _parse_page_response(backend.raw, qs, merged)
          IN IF ~p.exc /\ p.answers # EmptyDict THEN p.answers ELSE fallback

\* Lines 62-68: merge the facts, return {} for no questions, go to the
\* fallback without a client, to the backend call with one.
Enter ==
  /\ pc = "start"
  /\ IF questions = <<>>
       THEN pc' = "done" /\ result' = EmptyDict
       ELSE /\ pc' = IF client THEN "call" ELSE "fallback"
            /\ UNCHANGED result
  /\ UNCHANGED <<client, backend, questions, page_notes, facts, calls, parsed, raised,
                 args, ret, request, response>>

\* Line 71 when `page_notes[:12]` (line 123) raises while the
\* prompt is built: the backend is not invoked and lines 75-76 catch the
\* exception.
PromptRaises ==
  /\ pc = "call" /\ ~sliceable(page_notes)
  /\ pc' = "fallback"
  /\ raised' = FALSE
  /\ UNCHANGED <<client, backend, questions, page_notes, facts, calls, parsed,
                 result, args, ret, request, response>>

\* Line 71 when the invocation returns text.
CallReturns ==
  /\ pc = "call" /\ sliceable(page_notes) /\ backend.mode = "returns"
  /\ calls' = calls + 1
  /\ pc' = "parse"
  /\ UNCHANGED <<client, backend, questions, page_notes, facts, parsed, result, raised,
                 args, ret, request, response>>

\* CallRaises with one retry of the invocation after a failure.
CallRaisesRetry ==
  /\ pc = "call" /\ sliceable(page_notes) /\ backend.mode = "raises"
  /\ calls' = calls + 1
  /\ pc' = IF calls = 0 THEN "call" ELSE "fallback"
  /\ raised' = FALSE
  /\ UNCHANGED <<client, backend, questions, page_notes, facts, parsed, result,
                 args, ret, request, response>>

\* Line 71 when the invocation raises: lines 75-76 catch the exception.
CallRaises ==
  /\ pc = "call" /\ sliceable(page_notes) /\ backend.mode = "raises"
  /\ calls' = calls + 1
  /\ pc' = "fallback"
  /\ raised' = FALSE
  /\ UNCHANGED <<client, backend, questions, page_notes, facts, parsed, result,
                 args, ret, request, response>>

\* Parse without the test `if parsed:` of line 73: the parsed mapping is
\* returned even when it is empty.
ParseNoCheck ==
  /\ pc = "parse"
  /\ LET p == _parse_page_response(backend.raw, questions, _merge_facts(facts))
     IN /\ parsed' = p
        /\ raised' = FALSE
        /\ IF ~p.exc
             THEN pc' = "done" /\ result' = p.answers
             ELSE pc' = "fallback" /\ UNCHANGED result
  /\ UNCHANGED <<client, backend, questions, page_notes, facts, calls, args, ret,
                 request, response>>

\* Parse that fills the questions missing from the parsed mapping with their
\* heuristic answers.
ParseFill ==
  /\ pc = "parse"
  /\ LET p == _parse_page_response(backend.raw, questions, _merge_facts(facts))
     IN /\ parsed' = p
        /\ raised' = FALSE
        /\ IF ~p.exc /\ p.answers # EmptyDict
             THEN /\ pc' = "done"
                  /\ result' = p.answers
                       @@ _fallback_page_answers(questions, _merge_facts(facts))
             ELSE pc' = "fallback" /\ UNCHANGED result
  /\ UNCHANGED <<client, backend, questions, page_notes, facts, calls, args, ret,
                 request, response>>

\* Lines 72-76: a non-empty parsed mapping is returned; an empty one leads to
\* the fallback, and so does an exception of the parser, which line 75
\* catches.
Parse ==
  /\ pc = "parse"
  /\ LET p == _parse_page_response(backend.raw, questions, _merge_facts(facts))
     IN /\ parsed' = p
        /\ raised' = FALSE
        /\ IF ~p.exc /\ p.answers # EmptyDict
             THEN pc' = "done" /\ result' = p.answers
             ELSE pc' = "fallback" /\ UNCHANGED result
  /\ UNCHANGED <<client, backend, questions, page_notes, facts, calls, args, ret,
                 request, response>>

\* Lines 68 and 78.
Fallback ==
  /\ pc = "fallback"
  /\ result' = _fallback_page_answers(questions, _merge_facts(facts))
  /\ pc' = "done"
  /\ UNCHANGED <<client, backend, questions, page_notes, facts, calls, parsed, raised,
                 args, ret, request, response>>

-----------------------------------------------------------------------------
(* Specification Spec: one call of get_page_answers on a page of at most   *)
(* MaxQuestions questions, with and without a client, for a backend that   *)
(* raises or returns one of the sample replies.                            *)

PagePool ==
  { Q(3, t_harvard_email, "text", <<>>),
    Q(5, t_pick_house, "radio", <<s_eliot_house, s_winthrop_house>>),
    Q(7, t_favorite_color, "dropdown", ColorOptions),
    Q(1, t_snacks, "checkbox", FridgeOptions),
    Q(2, t_anything, "unknown", <<>>),
    Q(-1, t_favorite_color, "dropdown", ColorOptions),
    NoIndexQ(t_favorite_color, "radio", ColorOptions) }

SampleItemLists ==
  { <<Item(IntVal(7), Str(s_red), None)>>,
    <<Item(IntVal(7), Str(s_green), None), ScalarItem>>,
    <<Item(IntVal(0), Str(s_blue), None)>>,
    <<Item(IntVal(-1), Str(s_red), None)>>,
    <<Item(IntVal(1), None, List(<<s_blue_bottle, s_fridge>>)),
      Item(IntVal(3), List(<<s_other_email>>), None)>>,
    <<Item(IntVal(5), Str(s_eliot_house), None)>>,
    <<Item(IntVal(2), Str(s_tea), None)>> }

SampleReplies ==
  {<<Tok("prose")>> \o reply_text(items) \o <<Tok("prose"), Tok("ws")>> :
     items \in SampleItemLists}
    \cup {<<Tok("ws")>> \o pretty(reply_text(items)) : items \in SampleItemLists}
    \cup MalformedReplies

Init ==
  /\ pc = "start"
  /\ questions \in Pages(PagePool, MaxQuestions)
  /\ page_notes \in PageNotesKinds
  /\ facts \in FactOverrides
  /\ client \in BOOLEAN
  /\ backend \in {Raises} \cup {Returns(raw) : raw \in SampleReplies}
  /\ ~client => backend = Raises
  /\ calls = 0
  /\ parsed = Unused /\ result = Unused /\ raised = FALSE
  /\ args = Unused /\ ret = Unused /\ request = Unused /\ response = Unused

Next == Enter \/ PromptRaises \/ CallReturns \/ CallRaises \/ Parse \/ Fallback

Spec == Init /\ [][Next]_vars

\* The steps of a call end in the value of the function.
StepsAgree ==
  pc = "done" => result = get_page_answers(questions, page_notes, facts)

\* The fallback mapping of the running call.
FallbackOfCall == _fallback_page_answers(questions, _merge_facts(facts))

\* A value is drawn verbatim from an option list.
DrawnFrom(value, options) ==
  IF value.t = "list"
    THEN \A k \in 1..Len(value.v) : \E o \in 1..Len(options) : options[o] = value.v[k]
    ELSE value.t = "str" /\ \E o \in 1..Len(options) : options[o] = value.v

\* C1 as stated: in every returned mapping, the value of a question with
\* options whose index is a key is drawn verbatim from that question's options.
C1_Claim ==
  pc = "done" =>
    \A i \in 1..Len(questions) :
      (/\ questions[i].options # <<>>
       /\ questions[i].has_index
       /\ questions[i].index \in DOMAIN result)
        => DrawnFrom(result[questions[i].index], questions[i].options)

\* C2 as stated: the returned mapping is empty exactly when the question list
\* is empty.
C2_Original ==
  pc = "done" => (result = EmptyDict <=> questions = <<>>)

\* C2 amended: get_page_answers returns {} for an empty question list, and for
\* a non-empty list it returns an empty mapping only when the heuristic
\* fallback answers none of the questions (each has a negative or missing
\* index or is omitted by _fallback_answer).
C2_Amended ==
  pc = "done" =>
    /\ questions = <<>> => result = EmptyDict
    /\ (questions # <<>> /\ result = EmptyDict) =>
         \A i \in 1..Len(questions) :
           \/ index_or(questions[i], -1) < 0
           \/ _fallback_answer(questions[i], _merge_facts(facts)) = None

\* A call with a client on a page of one question of unknown type, whose reply
\* is no JSON, has returned the empty mapping.
C2_Witness ==
  /\ pc = "done"
  /\ client /\ calls = 1
  /\ questions = <<Q(2, t_anything, "unknown", <<>>)>>
  /\ result = EmptyDict

\* C4: with a client and a non-empty question list whose invocation returns,
\* the result is the parsed mapping whenever that is non-empty (and nothing
\* else: questions missing from it stay absent), and the fallback mapping
\* whenever the parsed mapping is empty or the parser fails, in particular
\* for every reply that is no JSON; no exception reaches the caller.
C4_WholePage ==
  (pc = "done" /\ client /\ questions # <<>> /\ calls = 1
     /\ backend.mode = "returns") =>
    LET p == _parse_page_response(backend.raw, questions, _merge_facts(facts))
    IN /\ ~raised
       /\ (~p.exc /\ p.answers # EmptyDict) => result = p.answers
       /\ (p.exc \/ p.answers = EmptyDict) => result = FallbackOfCall
       /\ json_loads(extract_json(backend.raw)).kind = "error"
            => result = FallbackOfCall

\* The reply answers one of two questions; the fallback would have answered
\* both; the result holds the parsed answer alone.
C4_Witness ==
  /\ pc = "done" /\ client /\ calls = 1 /\ backend.mode = "returns"
  /\ questions = <<Q(7, t_favorite_color, "dropdown", ColorOptions),
                   Q(3, t_harvard_email, "text", <<>>)>>
  /\ result = (7 :> Str(s_red))
  /\ DOMAIN FallbackOfCall = {3, 7}

\* C6 as stated: every key of the returned mapping is the index field of an
\* input question, and a question with a negative or missing index
\* contributes no key.
C6_Claim ==
  pc = "done" =>
    DOMAIN result \subseteq
      {questions[i].index : i \in {j \in 1..Len(questions) :
                               questions[j].has_index /\ questions[j].index >= 0}}

-----------------------------------------------------------------------------
(* The views of api/page_answers.py (lines 37-56) and app.py (lines 19-32). *)
(* A JSON value of the request is [kind, page, dict]:                      *)
(*   falsy kinds   "absent", "null", "false", "zero", "emptystr",          *)
(*                 "emptylist", "emptyobj"                                 *)
(*   truthy kinds  "true", "num", "str", "scalars" (a list of numbers),    *)
(*                 "list" (a list of question objects, in page),           *)
(*                 "obj" (an object, in dict)                              *)
(* The body is of kind "missing", "invalid" (no JSON), "request" (an       *)
(* object with the members questions, facts and page_notes) or one of the  *)
(* kinds above.                                                            *)

FalsyKinds == {"absent", "null", "false", "zero", "emptystr", "emptylist",
               "emptyobj"}

JVal(kind) == [kind |-> kind, page |-> <<>>, dict |-> EmptyDict]
JList(page) == [kind |-> "list", page |-> page, dict |-> EmptyDict]
JObj(dict) == [kind |-> "obj", page |-> <<>>, dict |-> dict]

\* A response built by the view and passed through _with_cors, which sets
\* the three Access-Control headers (cors; their values are not modelled).
Response(status, kind, answers) ==
  [status |-> status, kind |-> kind, answers |-> answers, cors |-> TRUE]
\* An exception that leaves the view function: Flask answers 500.
ServerError ==
  [status |-> 500, kind |-> "exception", answers |-> EmptyDict, cors |-> FALSE]

\* The POST view up to the backend: either the view ends (ends = TRUE, with
\* its response), or get_page_answers runs on the arguments qs, notes and
\* incoming.
before_call(body) ==
  LET Ends(r)  == [ends |-> TRUE, response |-> r, qs |-> <<>>, notes |-> "list",
                   incoming |-> EmptyDict]
  IN IF body.kind \in {"true", "num", "str", "scalars", "list"}
       \* payload is a truthy value without .get: AttributeError
       THEN Ends(ServerError)
     ELSE
       LET is_request  == body.kind = "request"
           f           == IF is_request THEN body.facts ELSE JVal("absent")
           q           == IF is_request THEN body.questions ELSE JVal("absent")
           n           == IF is_request THEN body.page_notes ELSE JVal("absent")
           \* payload.get("questions") or []
           is_list     == q.kind \in FalsyKinds \cup {"list", "scalars"}
           \* payload.get("facts") or {}
           facts_dict  == f.kind \in FalsyKinds \cup {"obj"}
       IN IF ~is_list THEN Ends(Response(400, "error", EmptyDict))
          \* merged.update(incoming) raises for a string or a number (line 89,
          \* called from line 62)
          ELSE IF ~facts_dict THEN Ends(ServerError)
          \* q.get raises for a question that is a number: with a client
          \* while the prompt is built (line 111, caught at line 75), then in
          \* _fallback_page_answers (line 259)
          ELSE IF q.kind = "scalars" THEN Ends(ServerError)
          ELSE [ends |-> FALSE, response |-> ServerError,
                qs |-> IF q.kind = "list" THEN q.page ELSE <<>>,
                \* payload.get("page_notes") or []
                notes |-> IF n.kind \in {"str", "num", "true", "obj"}
                            THEN n.kind ELSE "list",
                incoming |-> IF f.kind = "obj" THEN f.dict ELSE EmptyDict]

\* The response of the POST view to a request body.
handle_post(body) ==
  IF before_call(body).ends THEN before_call(body).response
  ELSE Response(200, "answers",
                get_page_answers(before_call(body).qs, before_call(body).notes,
                                 before_call(body).incoming))

\* The POST view of the route, from the request to the call of
\* get_page_answers (or to its response, when it ends before).
post_view(route) ==
  /\ pc = "received" /\ request.method = "POST" /\ request.route = route
  /\ LET c == before_call(request.body)
     IN IF c.ends
          THEN /\ response' = c.response
               /\ raised' = (c.response.status = 500)
               /\ pc' = "responded"
               /\ UNCHANGED <<questions, page_notes, facts>>
          ELSE /\ questions' = c.qs
               /\ page_notes' = c.notes
               /\ facts' = c.incoming
               /\ pc' = "start"
               /\ UNCHANGED <<response, raised>>
  /\ UNCHANGED <<client, backend, calls, parsed, result, args, ret, request>>

\* The POST view of the route when get_page_answers has returned.
post_view_return(route) ==
  /\ pc = "done" /\ request.route = route
  /\ response' = Response(200, "answers", result)
  /\ pc' = "responded"
  /\ UNCHANGED <<client, backend, questions, page_notes, facts, calls, parsed,
                 result, raised, args, ret, request>>

\* The OPTIONS view of the route.
options_view(route) ==
  /\ pc = "received" /\ request.method = "OPTIONS" /\ request.route = route
  /\ response' = Response(204, "empty", EmptyDict)
  /\ pc' = "responded"
  /\ UNCHANGED <<client, backend, questions, page_notes, facts, calls, parsed,
                 result, raised, args, ret, request>>

\* OPTIONS / of api/page_answers.py
options_root == options_view("/")

\* POST / of api/page_answers.py, lines 44-51
answer_page == post_view("/")

\* POST / of api/page_answers.py, lines 53-56
answer_page_return == post_view_return("/")

\* OPTIONS /api/page_answers of app.py
options_page_answers == options_view("/api/page_answers")

\* POST /api/page_answers of app.py, lines 25-31
page_answers == post_view("/api/page_answers")

\* POST /api/page_answers of app.py, lines 31-32
page_answers_return == post_view_return("/api/page_answers")

-----------------------------------------------------------------------------
(* Specification SpecHttp: one request to either application; a POST       *)
(* request runs get_page_answers by the steps of Spec.                     *)

HttpPool ==
  { Q(3, t_harvard_email, "text", <<>>),
    Q(7, t_favorite_color, "dropdown", ColorOptions),
    Q(2, t_anything, "unknown", <<>>) }

QuestionsValues ==
  {JVal(k) : k \in FalsyKinds \cup {"true", "num", "str", "scalars"}}
    \cup {JObj(EmptyDict)}
    \cup {JList(p) : p \in Pages(HttpPool, MaxQuestions) \ {<<>>}}

FactsValues ==
  {JVal(k) : k \in {"absent", "null", "emptyobj", "str", "num"}}
    \cup {JObj(d) : d \in FactOverrides \ {EmptyDict}}

PageNotesValues ==
  {JVal(k) : k \in {"absent", "emptylist", "zero", "scalars", "str", "num",
                    "true"}}
    \cup {JObj(d) : d \in FactOverrides \ {EmptyDict}}

Bodies ==
  {[kind |-> k, questions |-> JVal("absent"), facts |-> JVal("absent"),
    page_notes |-> JVal("absent")] :
     k \in {"missing", "invalid", "null", "false", "zero", "emptystr",
            "emptylist", "emptyobj", "true", "num", "str", "scalars", "list"}}
    \cup [kind : {"request"}, questions : QuestionsValues,
          facts : FactsValues, page_notes : PageNotesValues]

InitHttp ==
  /\ pc = "received"
  /\ request \in [method : {"POST", "OPTIONS"},
                  route : {"/", "/api/page_answers"}, body : Bodies]
  /\ request.method = "OPTIONS" => request.body.kind = "missing"
  /\ client \in BOOLEAN
  /\ backend \in {Raises,
                  Returns(<<Tok("prose")>>),
                  Returns(pretty(reply_text(<<Item(IntVal(7), Str(s_red), None)>>)))}
  /\ ~client => backend = Raises
  /\ response = Unused
  /\ questions = Unused /\ page_notes = Unused /\ facts = Unused
  /\ calls = 0 /\ parsed = Unused
  /\ result = Unused /\ raised = FALSE /\ args = Unused /\ ret = Unused

NextHttp ==
  \/ options_root \/ answer_page \/ answer_page_return
  \/ options_page_answers \/ page_answers \/ page_answers_return
  \/ Enter \/ PromptRaises \/ CallReturns \/ CallRaises \/ Parse \/ Fallback

SpecHttp == InitHttp /\ [][NextHttp]_vars

\* The steps of a POST request end in the response of the view, after at
\* most one invocation of the backend.
HttpStepsAgree ==
  (pc = "responded" /\ request.method = "POST") =>
    /\ response = handle_post(request.body)
    /\ calls <= 1

\* C7 as stated: the response to a POST request is a 4xx client error whenever
\* the questions member of the body is a value that is no list, truthy or
\* falsy; every other body (missing, no JSON, JSON that is no object, an
\* object with a list or without questions) gets a 200 response carrying an
\* answers mapping; no request gets a 5xx.
C7_Claim ==
  (pc = "responded" /\ request.method = "POST") =>
    LET b == request.body
        not_a_list == /\ b.kind = "request"
                      /\ b.questions.kind \notin {"absent", "emptylist", "list",
                                                  "scalars"}
    IN /\ response.status # 500
       /\ not_a_list => response.status = 400
       /\ ~not_a_list => response.status = 200 /\ response.kind = "answers"

====
